---- MODULE Spec2Model ----
(***************************************************************************)
(* Model of setup.py of vgpu_unlock: the packaging manifest.               *)
(*                                                                         *)
(* A run of setup.py is a straight line: the import (line 1), the          *)
(* evaluation of the keyword arguments, of which packages=find_packages()  *)
(* (line 8) is the only call, the entry into setup() with the eight        *)
(* keywords (lines 3-18) and its return.  Two evaluations, "A" and then    *)
(* "B", each a run of the interpreter in a source tree of its own, are     *)
(* modelled so that statements comparing evaluations can be checked.       *)
(*                                                                         *)
(* Representation.  A Python str is a TLA+ string, except the version,     *)
(* whose characters are inspected and which is the tuple of its            *)
(* characters.  A directory is the tuple of its path components below the  *)
(* directory of setup.py; the package name 'a.b' is the tuple <<"a","b">>. *)
(* A value passed to setup() carries its Python type in the field tag.     *)
(***************************************************************************)
EXTENDS Integers, Sequences, FiniteSets, TLC

\* ---------------------------------------------------------------- bounds
\* longest directory path below the directory of setup.py
MaxDepth == 2
\* largest number of directories in a source tree
MaxDirs == 2

\* the two evaluations of the manifest that are compared
Runs == {"A", "B"}
\* the evaluations that come before evaluation r
Earlier(r) == IF r = "B" THEN {"A"} ELSE {}
\* directory names that occur in the source trees (none contains a '.')
Names == {"a", "b"}

Range(s) == {s[i] : i \in 1..Len(s)}

\* ---------------------------------------------------------- source trees
RECURSIVE PathsOfLen(_)
PathsOfLen(n) ==
    IF n = 0 THEN {<<>>}
    ELSE {Append(p, x) : p \in PathsOfLen(n - 1), x \in Names}

AllDirs == UNION {PathsOfLen(n) : n \in 1..MaxDepth}

Parent(d) == SubSeq(d, 1, Len(d) - 1)

PrefixClosed(ds) == \A d \in ds : Len(d) > 1 => Parent(d) \in ds

DirSets == {x \in SUBSET AllDirs : Cardinality(x) <= MaxDirs /\ PrefixClosed(x)}

\* the names of the sub-directories of d in a tree with directories ds
Children(ds, d) == {x \in Names : Append(d, x) \in ds}

\* the orders in which the operating system may list the entries S
Perms(S) ==
    {q \in [1..Cardinality(S) -> S] : \A i, j \in DOMAIN q : q[i] = q[j] => i = j}

\* one listing order for each directory of the tree, its top included
Listings(ds) ==
    {f \in [{<<>>} \cup ds -> UNION {Perms(S) : S \in SUBSET Names}] :
        \A d \in DOMAIN f : f[d] \in Perms(Children(ds, d))}

\* dirs: the directories of the tree; inits: those holding an __init__.py;
\* listing: the order in which os.scandir lists the entries of each
Trees ==
    UNION {{[dirs |-> ds, inits |-> is, listing |-> f] :
               is \in SUBSET ds, f \in Listings(ds)} : ds \in DirSets}

\* ---------------------------------------------------------- find_packages
\* os.walk's dirs for root: the sub-directories in listing order
listdir(t, root) ==
    [i \in 1..Len(t.listing[root]) |-> Append(root, t.listing[root][i])]

\* PackageFinder._looks_like_package: isfile(join(path, '__init__.py'))
looks_like_package(t, d) == d \in t.inits

RECURSIVE Walk(_, _), WalkAll(_, _)
\* PackageFinder._find_iter: for each root of os.walk (top-down), yield the
\* sub-directories that look like a package and descend into those only
Walk(t, root) ==
    LET pk == SelectSeq(listdir(t, root), LAMBDA c : looks_like_package(t, c))
    IN  pk \o WalkAll(t, pk)

WalkAll(t, roots) ==
    IF roots = <<>> THEN <<>>
    ELSE Walk(t, Head(roots)) \o WalkAll(t, Tail(roots))

\* find_packages(): where='.', exclude=(), include=('*',)
find_packages(t) == Walk(t, <<>>)

\* the file-system reads of the walk: one listing per directory walked, one
\* isfile per sub-directory listed
WalkReads(t) ==
    LET walked == {<<>>} \cup Range(find_packages(t))
    IN  {[op |-> "listdir", path |-> d] : d \in walked}
        \cup {[op |-> "isfile", path |-> c] :
                 c \in {x \in t.dirs : Parent(x) \in walked}}

\* ------------------------------------------------------ manifest literals
Str(s) == [tag |-> "str", val |-> s]
List(q) == [tag |-> "list", val |-> q]

name == Str("vgpu_unlock")
\* variant: a two-component version, version='1.0'
version_two_part == Str(<<"1", ".", "0">>)
version == Str(<<"1", ".", "0", ".", "0">>)
description == Str("vGPU unlock script for consumer GPUs")
author == Str("D")
\* variant: the script given as a bare string instead of a list
scripts_str == Str("scripts/vgpu-name.sh")
scripts == List(<<"scripts/vgpu-name.sh">>)
\* variant: a second dependency declared
install_requires_two == List(<<"frida", "setuptools">>)
install_requires == List(<<"frida">>)
classifiers ==
  List(
    << "License :: OSI Approved :: MIT License",
       "Programming Language :: Python :: 3",
       "Programming Language :: Python :: 3.9",
       "Programming Language :: Python :: 3.10",
       "Programming Language :: Python :: 3.11" >>)

\* variant: the distribution name taken from the first package found
SetupKwargs_dynamic_name(pkgs) ==
    [ name |-> IF pkgs = <<>> THEN name ELSE Str(pkgs[1][1]),
      version |-> version,
      description |-> description,
      author |-> author,
      packages |-> List(pkgs),
      scripts |-> scripts,
      install_requires |-> install_requires,
      classifiers |-> classifiers ]

\* variant: a hand-written package list, packages=['a'], instead of the
\* result of find_packages()
SetupKwargs_static_packages(pkgs) ==
    [ name |-> name,
      version |-> version,
      description |-> description,
      author |-> author,
      packages |-> List(<< <<"a">> >>),
      scripts |-> scripts,
      install_requires |-> install_requires,
      classifiers |-> classifiers ]

\* the keyword arguments of the setup() call, packages being the list that
\* find_packages() returned
SetupKwargs(pkgs) ==
    [ name |-> name,
      version |-> version,
      description |-> description,
      author |-> author,
      packages |-> List(pkgs),
      scripts |-> scripts,
      install_requires |-> install_requires,
      classifiers |-> classifiers ]

NoKwargs == [k \in {} |-> Str("")]

\* ------------------------------------------------- the packaging schema
\* the shape the packaging tool requires of each keyword the manifest uses
Schema ==
    [ name |-> "str", version |-> "str", description |-> "str",
      author |-> "str", packages |-> "list", scripts |-> "list",
      install_requires |-> "list", classifiers |-> "list" ]

Valid(kw) ==
    /\ DOMAIN kw \subseteq DOMAIN Schema
    /\ \A k \in DOMAIN kw : kw[k].tag = Schema[k]

\* ------------------------------------------------------------------ state
VARIABLES
    tree,      \* tree[r]: the source tree evaluation r runs in
    pc,        \* pc[r]: the position of evaluation r in setup.py
    found,     \* found[r]: the value find_packages() returned
    kwargs,    \* kwargs[r]: the keywords setup() was entered with
    calls,     \* calls[r]: the number of times setup() was entered
    reads      \* reads[r]: the file-system reads evaluation r has made

vars == <<tree, pc, found, kwargs, calls, reads>>

Init ==
    /\ tree \in [Runs -> Trees]
    /\ pc = [r \in Runs |-> "start"]
    /\ found = [r \in Runs |-> <<>>]
    /\ kwargs = [r \in Runs |-> NoKwargs]
    /\ calls = [r \in Runs |-> 0]
    /\ reads = [r \in Runs |-> {}]

\* variant: the import step lists the directory of setup.py itself
Import_reads(r) ==
    /\ pc[r] = "start"
    /\ \A q \in Earlier(r) : pc[q] \in {"done", "error"}
    /\ pc' = [pc EXCEPT ![r] = "imported"]
    /\ reads' = [reads EXCEPT ![r] = @ \cup {[op |-> "listdir", path |-> <<>>]}]
    /\ UNCHANGED <<tree, found, kwargs, calls>>

\* line 1: from setuptools import setup, find_packages
Import(r) ==
    /\ pc[r] = "start"
    /\ \A q \in Earlier(r) : pc[q] \in {"done", "error"}
    /\ pc' = [pc EXCEPT ![r] = "imported"]
    /\ UNCHANGED <<tree, found, kwargs, calls, reads>>

\* line 8: find_packages(), called while the arguments are evaluated
FindPackages(r) ==
    /\ pc[r] = "imported"
    /\ found' = [found EXCEPT ![r] = find_packages(tree[r])]
    /\ reads' = [reads EXCEPT ![r] = @ \cup WalkReads(tree[r])]
    /\ pc' = [pc EXCEPT ![r] = "args"]
    /\ UNCHANGED <<tree, kwargs, calls>>

\* lines 3-18: setup(...) is entered with the evaluated keywords
CallSetup(r) ==
    /\ pc[r] = "args"
    /\ kwargs' = [kwargs EXCEPT ![r] = SetupKwargs(found[r])]
    /\ calls' = [calls EXCEPT ![r] = @ + 1]
    /\ pc' = [pc EXCEPT ![r] = "in_setup"]
    /\ UNCHANGED <<tree, found, reads>>

\* variant: the call is retried once after it returns
SetupReturn_retry(r) ==
    /\ pc[r] = "in_setup"
    /\ pc' = [pc EXCEPT ![r] = IF calls[r] < 2 THEN "args" ELSE "done"]
    /\ UNCHANGED <<tree, found, kwargs, calls, reads>>

\* line 18: setup() checks the keywords against its schema and returns, or
\* raises; either way the module ends
SetupReturn(r) ==
    /\ pc[r] = "in_setup"
    /\ pc' = [pc EXCEPT ![r] = IF Valid(kwargs[r]) THEN "done" ELSE "error"]
    /\ UNCHANGED <<tree, found, kwargs, calls, reads>>

Next ==
    \E r \in Runs :
        \/ Import(r)
        \/ FindPackages(r)
        \/ CallSetup(r)
        \/ SetupReturn(r)

Spec == Init /\ [][Next]_vars

\* the interpreter runs the module to its end: a step that can be taken is
\* taken
FairSpec == Spec /\ \A r \in Runs : WF_vars(Import(r) \/ FindPackages(r) \/ CallSetup(r) \/ SetupReturn(r))

TypeOK ==
    /\ pc \in [Runs -> {"start", "imported", "args", "in_setup", "done", "error"}]
    /\ calls \in [Runs -> 0..1]
    /\ tree \in [Runs -> Trees]

\* ------------------------------------------------------------- properties
\* setup() has been entered
Entered(r) == pc[r] \in {"in_setup", "done", "error"}

LiteralKeys == {"name", "version", "description", "author", "scripts",
                "install_requires", "classifiers"}
StrKeys == {"name", "version", "description", "author"}
ListKeys == {"packages", "scripts", "install_requires", "classifiers"}

\* the package directories of a tree: those holding an __init__.py all of
\* whose ancestors below the directory of setup.py hold one too
Discoverable(t) ==
    {d \in t.dirs : \A k \in 1..Len(d) : SubSeq(d, 1, k) \in t.inits}

Digits == {"0", "1", "2", "3", "4", "5", "6", "7", "8", "9"}

RECURSIVE SplitOn(_, _)
\* the components of s between the occurrences of sep, as str.split gives
SplitOn(s, sep) ==
    IF s = <<>> THEN << <<>> >>
    ELSE LET rest == SplitOn(Tail(s), sep)
         IN  IF Head(s) = sep THEN << <<>> >> \o rest
             ELSE << <<Head(s)>> \o Head(rest) >> \o Tail(rest)

IsSemVer(v) ==
    LET parts == SplitOn(v, ".")
    IN  /\ Len(parts) = 3
        /\ \A i \in 1..Len(parts) :
              /\ parts[i] # <<>>
              /\ \A j \in 1..Len(parts[i]) : parts[i][j] \in Digits

\* C1: in the single setup() call the scripts list is exactly
\* ['scripts/vgpu-name.sh'] and the install_requires list is exactly
\* ['frida']; nothing else is declared in either.
C1_OneScriptOneDependency ==
    \A r \in Runs :
        Entered(r) =>
            /\ calls[r] = 1
            /\ Len(kwargs[r].scripts.val) = 1
            /\ kwargs[r].scripts.val[1] = "scripts/vgpu-name.sh"
            /\ Len(kwargs[r].install_requires.val) = 1
            /\ kwargs[r].install_requires.val[1] = "frida"

C1_Witness ==
    \E r \in Runs : pc[r] = "done" /\ "scripts" \in DOMAIN kwargs[r]

\* C6: the version passed to setup() is '1.0.0': exactly three dot-separated
\* components, each a non-empty run of decimal digits, nothing before or
\* after.
C6_VersionIsSemVer ==
    \A r \in Runs :
        Entered(r) =>
            /\ kwargs[r].version.tag = "str"
            /\ kwargs[r].version.val = <<"1", ".", "0", ".", "0">>
            /\ IsSemVer(kwargs[r].version.val)

C6_Witness ==
    \E r \in Runs : Entered(r) /\ Len(SplitOn(kwargs[r].version.val, ".")) = 3

\* C5: every keyword passed to setup() is a keyword of the schema with the
\* shape the schema requires (a string for name, version, description and
\* author; a list for packages, scripts, install_requires and classifiers),
\* and the evaluation never ends in the error state.
C5_ParsesUnderSchema ==
    \A r \in Runs :
        /\ pc[r] # "error"
        /\ Entered(r) =>
              /\ DOMAIN kwargs[r] = StrKeys \cup ListKeys
              /\ \A k \in StrKeys : kwargs[r][k].tag = "str"
              /\ \A k \in ListKeys : kwargs[r][k].tag = "list"

C5_Witness ==
    \A r \in Runs : pc[r] = "done" /\ DOMAIN kwargs[r] = DOMAIN Schema

\* C2 as stated: every field passed to setup(), the package list included,
\* has a value fixed in the manifest text, the same in every evaluation
\* whatever the environment.
C2_AllFieldsStatic ==
    \A r1, r2 \in Runs :
        Entered(r1) /\ Entered(r2) => kwargs[r1] = kwargs[r2]

\* C2 amended: every field passed to setup() other than packages has the
\* value written in the manifest, the same in every evaluation whatever the
\* source tree, and no field changes once setup() has been entered.
C2_LiteralFieldsStatic ==
    /\ [](\A r1, r2 \in Runs :
             Entered(r1) /\ Entered(r2) =>
                 /\ LiteralKeys \subseteq DOMAIN kwargs[r1]
                 /\ \A k \in LiteralKeys : kwargs[r1][k] = kwargs[r2][k]
                 /\ kwargs[r1].name.val = "vgpu_unlock"
                 /\ kwargs[r1].author.val = "D"
                 /\ kwargs[r1].description.val = "vGPU unlock script for consumer GPUs"
                 /\ Len(kwargs[r1].classifiers.val) = 5)
    /\ [][\A r \in Runs : Entered(r) => kwargs'[r] = kwargs[r]]_vars

C2_Witness ==
    /\ \A r \in Runs : pc[r] = "done"
    /\ kwargs["A"].packages # kwargs["B"].packages
    /\ kwargs["A"].name = kwargs["B"].name

C7_ConsumedOnce ==
    /\ [](\A r \in Runs :
             /\ calls[r] <= 1
             /\ Entered(r) => calls[r] = 1)
    /\ \A r \in Runs : <>(pc[r] = "done")
    /\ [][\A r \in Runs :
             pc[r] = "done" =>
                 /\ pc'[r] = "done" /\ calls'[r] = calls[r]
                 /\ kwargs'[r] = kwargs[r] /\ found'[r] = found[r]
                 /\ reads'[r] = reads[r]]_vars

C7_Witness ==
    \A r \in Runs : pc[r] = "done" /\ calls[r] = 1

\* C8 as stated: two evaluations pass identical name, version, description,
\* author, scripts, install_requires and classifiers, and identical
\* packages whenever their trees have the same discoverable package
\* directories; packages is the result of find_packages(), computed before
\* setup() is entered.
C8_PackagesIdentical ==
    \A r1, r2 \in Runs :
        Entered(r1) /\ Entered(r2) =>
            /\ \A k \in LiteralKeys : kwargs[r1][k] = kwargs[r2][k]
            /\ Discoverable(tree[r1]) = Discoverable(tree[r2]) =>
                  kwargs[r1].packages = kwargs[r2].packages
            /\ kwargs[r1].packages.val = found[r1]

\* C8 amended: two evaluations pass identical name, version, description,
\* author, scripts, install_requires and classifiers, and package lists
\* with the same elements (each discoverable package directory once, in the
\* order the directories are listed, which may differ) whenever their trees
\* have the same discoverable package directories; packages is the result
\* of find_packages(), computed before setup() is entered.
C8_PackagesSameElements ==
    /\ \A r \in Runs :
          /\ pc[r] = "args" => calls[r] = 0 /\ kwargs[r] = NoKwargs
          /\ pc[r] \in {"args", "in_setup", "done", "error"} =>
                /\ Range(found[r]) = Discoverable(tree[r])
                /\ Len(found[r]) = Cardinality(Discoverable(tree[r]))
          /\ Entered(r) => kwargs[r].packages = List(found[r])
    /\ \A r1, r2 \in Runs :
          Entered(r1) /\ Entered(r2) =>
              /\ \A k \in LiteralKeys : kwargs[r1][k] = kwargs[r2][k]
              /\ Discoverable(tree[r1]) = Discoverable(tree[r2]) =>
                    Range(kwargs[r1].packages.val) = Range(kwargs[r2].packages.val)

C8_Witness ==
    /\ \A r \in Runs : pc[r] = "done"
    /\ tree["A"] # tree["B"]
    /\ Cardinality(Discoverable(tree["A"])) = 2
    /\ Discoverable(tree["A"]) = Discoverable(tree["B"])
    /\ kwargs["A"].packages # kwargs["B"].packages

====
